---- MODULE Spec2Model ----
(***************************************************************************)
(* Model of app.py: the credential resolver get_openai_api_key, the        *)
(* completion invoker ask_llm and the form handler main.                   *)
(*                                                                         *)
(* Texts are sequences of one-character strings.  The environment, the     *)
(* secret store, the typed text, the role code and the behaviour of the    *)
(* remote completion service are the inputs.  One run of main (or one      *)
(* direct call of ask_llm) is executed as a chain of steps selected by pc. *)
(***************************************************************************)
EXTENDS Naturals, Sequences, FiniteSets

VARIABLES
    env,            \* os.environ["OPENAI_API_KEY"]: None, "" or a key
    secrets,        \* st.secrets: Raises (no store), None (no entry), "" or a key
    pc,             \* position of the single thread of control
    caller,         \* who called ask_llm: "main", "direct", or "none"
    typed,          \* main: the text_area value of this run (input_text)
    radio,          \* main: the st.radio value of this run (expert_choice)
    input_text,     \* ask_llm: parameter input_text
    expert_choice,  \* ask_llm: parameter expert_choice
    key,            \* get_openai_api_key: local key
    api_key,        \* ask_llm: local api_key
    messages,       \* ask_llm: the list handed to llm.invoke
    content,        \* ai_response.content as returned by the service
    remote_error,   \* the exception raised by llm.invoke, or None
    outcome,        \* how ask_llm ended: [kind, exc, val]
    display,        \* the result widgets main rendered in this run
    resolver_calls, \* calls of get_openai_api_key in this run
    env_reads,      \* os.getenv calls in this run
    secrets_reads,  \* st.secrets.get calls in this run
    invoke_calls,   \* llm.invoke calls in this run
    outstanding,    \* completion calls in flight
    sent_before     \* the service's view: user text of the previous request

vars == <<env, secrets, pc, caller, typed, radio, input_text, expert_choice,
          key, api_key, messages, content, remote_error, outcome, display,
          resolver_calls, env_reads, secrets_reads, invoke_calls, outstanding,
          sent_before>>

----------------------------------------------------------------------------
(* Bounds *)

MaxTyped == 3       \* longest text typed into the form
MaxContent == 3     \* longest response content of the service

(* Characters: two whitespace characters and one other character. *)
Whitespace == {" ", "\n"}
FormChars == {" ", "x"}
ContentChars == {" ", "\n", "x"}

RECURSIVE SeqsUpTo(_, _)
SeqsUpTo(S, n) ==
    IF n = 0 THEN {<<>>}
    ELSE LET shorter == SeqsUpTo(S, n - 1)
         IN  shorter \cup {Append(s, c) : s \in {t \in shorter : Len(t) = n - 1}, c \in S}

TypedTexts == SeqsUpTo(FormChars, MaxTyped)
Contents == SeqsUpTo(ContentChars, MaxContent)

----------------------------------------------------------------------------
(* Values *)

None == "<None>"
Raises == "<raises>"
NoText == <<"<none>">>

EnvValues == {None, "", "sk-env"}
SecretsValues == {Raises, None, "", "sk-secrets"}
RoleCodes == {"A", "B", "C", ""}
RadioOptions == {"A", "B"}
RemoteErrors == {"APIConnectionError", "AuthenticationError"}

\* EXPERT_SYSTEMS: role code -> fixed system instruction
\* ("A": travel planner instruction, "B": career coach instruction).
EXPERT_SYSTEMS ==
    [c \in {"A", "B"} |-> IF c = "A" THEN "travel-planner-instruction"
                                     ELSE "career-coach-instruction"]

ValueErrorMsg == "expert_choice must be 'A' or 'B'"
RuntimeErrorMsg == "OpenAI API key not found"
ErrorPrefix == "error occurred: "

\* Python truthiness of an optional string: "not key" is true for None and "".
Truthy(k) == k # None /\ k # ""

\* str.strip(): drop leading whitespace, then trailing whitespace.
RECURSIVE LStrip(_)
LStrip(s) ==
    IF s = <<>> THEN <<>>
    ELSE IF Head(s) \in Whitespace THEN LStrip(Tail(s)) ELSE s

RECURSIVE RStrip(_)
RStrip(s) ==
    IF s = <<>> THEN <<>>
    ELSE IF s[Len(s)] \in Whitespace THEN RStrip(SubSeq(s, 1, Len(s) - 1)) ELSE s

Strip(s) == RStrip(LStrip(s))

\* main: "not input_text.strip()"
BlankRaw(s) == s = <<>>
Blank(s) == Strip(s) = <<>>

\* ask_llm: messages = [SystemMessage(system_msg), HumanMessage(input_text)]
SystemMessage(c) == [type |-> "system", content |-> <<c>>]
HumanMessage(c) == [type |-> "human", content |-> c]

BuildMessagesSwapped(system_msg, text) ==
    <<HumanMessage(text), SystemMessage(system_msg)>>
BuildMessagesWithMemory(system_msg, text) ==
    IF sent_before = NoText
    THEN <<SystemMessage(system_msg), HumanMessage(text)>>
    ELSE <<SystemMessage(system_msg), HumanMessage(sent_before),
           HumanMessage(text)>>
BuildMessages(system_msg, text) ==
    <<SystemMessage(system_msg), HumanMessage(text)>>

NoOutcome == [kind |-> "none", exc |-> None, msg |-> None, val |-> NoText]
Raise(e, m) == [kind |-> "raise", exc |-> e, msg |-> m, val |-> NoText]
Return(v) == [kind |-> "return", exc |-> None, msg |-> None, val |-> v]

----------------------------------------------------------------------------
Init ==
    /\ env \in EnvValues
    /\ secrets \in SecretsValues
    /\ pc = "idle"
    /\ caller = "none"
    /\ typed = NoText
    /\ radio = None
    /\ input_text = NoText
    /\ expert_choice = None
    /\ key = None
    /\ api_key = None
    /\ messages = <<>>
    /\ content = NoText
    /\ remote_error = None
    /\ outcome = NoOutcome
    /\ display = <<>>
    /\ resolver_calls = 0
    /\ env_reads = 0
    /\ secrets_reads = 0
    /\ invoke_calls = 0
    /\ outstanding = 0
    /\ sent_before = NoText

\* What a new run starts from: locals and per-run observations are fresh.
FreshRunLocals ==
    /\ key' = None
    /\ api_key' = None
    /\ messages' = <<>>
    /\ content' = NoText
    /\ remote_error' = None
    /\ outcome' = NoOutcome
    /\ display' = <<>>
    /\ resolver_calls' = 0
    /\ env_reads' = 0
    /\ secrets_reads' = 0
    /\ invoke_calls' = 0

FreshRun ==
    /\ input_text' = NoText
    /\ expert_choice' = None
    /\ FreshRunLocals

\* main, submitted = False: the page is rendered and nothing else happens.
Render ==
    /\ pc = "idle"
    /\ typed' = NoText
    /\ radio' = None
    /\ FreshRun
    /\ caller' = "none"
    /\ pc' = "idle"
    /\ UNCHANGED <<env, secrets, outstanding, sent_before>>

\* main, submitted = True: the form delivers the text and the role.
Submit ==
    /\ pc = "idle"
    /\ \E text \in TypedTexts, choice \in RadioOptions :
          /\ typed' = text
          /\ radio' = choice
    /\ FreshRun
    /\ caller' = "main"
    /\ pc' = "submitted"
    /\ UNCHANGED <<env, secrets, outstanding, sent_before>>

\* main: if not input_text.strip(): st.warning(...); return
MainRejectEmpty ==
    /\ pc = "submitted"
    /\ Blank(typed)
    /\ display' = Append(display, [widget |-> "warning", text |-> <<>>])
    /\ pc' = "idle"
    /\ UNCHANGED <<env, secrets, caller, typed, radio, input_text, expert_choice,
                   key, api_key, messages, content, remote_error, outcome,
                   resolver_calls, env_reads, secrets_reads, invoke_calls,
                   outstanding, sent_before>>

\* main: ask_llm(input_text=input_text.strip(), expert_choice=expert_choice)
MainCallAskLlmRaw ==
    /\ pc = "submitted"
    /\ ~Blank(typed)
    /\ input_text' = typed
    /\ expert_choice' = radio
    /\ pc' = "ask_llm"
    /\ UNCHANGED <<env, secrets, caller, typed, radio, key, api_key, messages,
                   content, remote_error, outcome, display, resolver_calls,
                   env_reads, secrets_reads, invoke_calls, outstanding,
                   sent_before>>
MainCallAskLlm ==
    /\ pc = "submitted"
    /\ ~Blank(typed)
    /\ input_text' = Strip(typed)
    /\ expert_choice' = radio
    /\ pc' = "ask_llm"
    /\ UNCHANGED <<env, secrets, caller, typed, radio, key, api_key, messages,
                   content, remote_error, outcome, display, resolver_calls,
                   env_reads, secrets_reads, invoke_calls, outstanding,
                   sent_before>>

\* ask_llm called by another caller than main, with any text and role code.
DirectCall ==
    /\ pc = "idle"
    /\ \E text \in TypedTexts, choice \in RoleCodes :
          /\ input_text' = text
          /\ expert_choice' = choice
    /\ typed' = NoText
    /\ radio' = None
    /\ FreshRunLocals
    /\ caller' = "direct"
    /\ pc' = "ask_llm"
    /\ UNCHANGED <<env, secrets, outstanding, sent_before>>

----------------------------------------------------------------------------
(* ask_llm *)

\* ask_llm: a variant that resolves the credential before checking the role.
AskCheckRoleLate ==
    /\ pc = "ask_llm"
    /\ resolver_calls' = resolver_calls + 1
    /\ env_reads' = env_reads + 1
    /\ key' = env
    /\ IF expert_choice \notin DOMAIN EXPERT_SYSTEMS
       THEN /\ outcome' = Raise("ValueError", ValueErrorMsg)
            /\ pc' = "ask_done"
            /\ UNCHANGED api_key
       ELSE /\ api_key' = env
            /\ pc' = IF Truthy(env) THEN "check_key" ELSE "get_key_secrets"
            /\ UNCHANGED outcome
    /\ UNCHANGED <<env, secrets, caller, typed, radio, input_text, expert_choice,
                   messages, content, remote_error, display, secrets_reads,
                   invoke_calls, outstanding, sent_before>>
\* if expert_choice not in EXPERT_SYSTEMS: raise ValueError(...)
AskCheckRole ==
    /\ pc = "ask_llm"
    /\ IF expert_choice \notin DOMAIN EXPERT_SYSTEMS
       THEN /\ outcome' = Raise("ValueError", ValueErrorMsg)
            /\ pc' = "ask_done"
       ELSE /\ pc' = "get_key"
            /\ UNCHANGED outcome
    /\ UNCHANGED <<env, secrets, caller, typed, radio, input_text, expert_choice,
                   key, api_key, messages, content, remote_error, display,
                   resolver_calls, env_reads, secrets_reads, invoke_calls,
                   outstanding, sent_before>>

\* get_openai_api_key: a variant that always consults the secret store.
GetKeyEnvThenAlwaysSecrets ==
    /\ pc = "get_key"
    /\ resolver_calls' = resolver_calls + 1
    /\ env_reads' = env_reads + 1
    /\ key' = env
    /\ pc' = "get_key_secrets"
    /\ UNCHANGED <<env, secrets, caller, typed, radio, input_text, expert_choice,
                   api_key, messages, content, remote_error, outcome, display,
                   secrets_reads, invoke_calls, outstanding,
                   sent_before>>
\* get_openai_api_key: key = os.getenv("OPENAI_API_KEY"); if not key: ...
\* When the key is truthy the function returns it (api_key = key).
GetKeyEnv ==
    /\ pc = "get_key"
    /\ resolver_calls' = resolver_calls + 1
    /\ env_reads' = env_reads + 1
    /\ key' = env
    /\ IF Truthy(env)
       THEN /\ api_key' = env
            /\ pc' = "check_key"
       ELSE /\ pc' = "get_key_secrets"
            /\ UNCHANGED api_key
    /\ UNCHANGED <<env, secrets, caller, typed, radio, input_text, expert_choice,
                   messages, content, remote_error, outcome, display,
                   secrets_reads, invoke_calls, outstanding,
                   sent_before>>

\* get_openai_api_key without the try/except: the lookup failure escapes
\* the resolver and ask_llm.
GetKeySecretsUnguarded ==
    /\ pc = "get_key_secrets"
    /\ secrets_reads' = secrets_reads + 1
    /\ IF secrets = Raises
       THEN /\ outcome' = Raise("KeyError", "OPENAI_API_KEY")
            /\ pc' = "ask_done"
            /\ UNCHANGED <<key, api_key>>
       ELSE /\ key' = secrets
            /\ api_key' = secrets
            /\ pc' = "check_key"
            /\ UNCHANGED outcome
    /\ UNCHANGED <<env, secrets, caller, typed, radio, input_text, expert_choice,
                   messages, content, remote_error, display, resolver_calls,
                   env_reads, invoke_calls, outstanding,
                   sent_before>>
\* get_openai_api_key: try: key = st.secrets.get("OPENAI_API_KEY")
\*                     except Exception: key = None
\*                     return key
GetKeySecrets ==
    /\ pc = "get_key_secrets"
    /\ secrets_reads' = secrets_reads + 1
    /\ LET k == IF secrets = Raises THEN None ELSE secrets
       IN  /\ key' = k
           /\ api_key' = k
    /\ pc' = "check_key"
    /\ UNCHANGED <<env, secrets, caller, typed, radio, input_text, expert_choice,
                   messages, content, remote_error, outcome, display,
                   resolver_calls, env_reads, invoke_calls, outstanding,
                   sent_before>>

\* ask_llm without the credential check: the request is issued regardless.
AskCheckKeyMissing ==
    /\ pc = "check_key"
    /\ messages' = BuildMessages(EXPERT_SYSTEMS[expert_choice], input_text)
    /\ invoke_calls' = invoke_calls + 1
    /\ outstanding' = outstanding + 1
    /\ pc' = "invoke"
    /\ UNCHANGED <<env, secrets, caller, typed, radio, input_text, expert_choice,
                   key, api_key, content, remote_error, outcome, display,
                   resolver_calls, env_reads, secrets_reads,
                   sent_before>>
\* if not api_key: raise RuntimeError(...)
\* system_msg = EXPERT_SYSTEMS[expert_choice]; messages = [...];
\* llm = ChatOpenAI(...); llm.invoke(messages) is issued and blocks.
AskCheckKey ==
    /\ pc = "check_key"
    /\ IF ~Truthy(api_key)
       THEN /\ outcome' = Raise("RuntimeError", RuntimeErrorMsg)
            /\ pc' = "ask_done"
            /\ UNCHANGED <<messages, invoke_calls, outstanding>>
       ELSE /\ messages' = BuildMessages(EXPERT_SYSTEMS[expert_choice], input_text)
            /\ invoke_calls' = invoke_calls + 1
            /\ outstanding' = outstanding + 1
            /\ pc' = "invoke"
            /\ UNCHANGED outcome
    /\ UNCHANGED <<env, secrets, caller, typed, radio, input_text, expert_choice,
                   key, api_key, content, remote_error, display,
                   resolver_calls, env_reads, secrets_reads,
                   sent_before>>

\* The user text of the request the service has just answered.
UserTextOf(msgs) == msgs[Len(msgs)].content

\* ask_llm returning the content as received.
InvokeReturnsUnstripped ==
    /\ pc = "invoke"
    /\ \E c \in Contents :
          /\ content' = c
          /\ outcome' = Return(c)
    /\ sent_before' = UserTextOf(messages)
    /\ outstanding' = outstanding - 1
    /\ pc' = "ask_done"
    /\ UNCHANGED <<env, secrets, caller, typed, radio, input_text, expert_choice,
                   key, api_key, messages, remote_error, display,
                   resolver_calls, env_reads, secrets_reads, invoke_calls>>
\* ai_response = llm.invoke(messages); return ai_response.content.strip()
InvokeReturns ==
    /\ pc = "invoke"
    /\ \E c \in Contents :
          /\ content' = c
          /\ outcome' = Return(Strip(c))
    /\ sent_before' = UserTextOf(messages)
    /\ outstanding' = outstanding - 1
    /\ pc' = "ask_done"
    /\ UNCHANGED <<env, secrets, caller, typed, radio, input_text, expert_choice,
                   key, api_key, messages, remote_error, display,
                   resolver_calls, env_reads, secrets_reads, invoke_calls>>

\* ask_llm with a retry: a failed completion call is issued once more.
InvokeRaisesRetry ==
    /\ pc = "invoke"
    /\ \E e \in RemoteErrors : remote_error' = e
    /\ IF invoke_calls < 2
       THEN /\ invoke_calls' = invoke_calls + 1
            /\ pc' = "invoke"
            /\ UNCHANGED <<outcome, outstanding>>
       ELSE /\ outcome' = Raise(remote_error', remote_error')
            /\ outstanding' = outstanding - 1
            /\ pc' = "ask_done"
            /\ UNCHANGED invoke_calls
    /\ UNCHANGED <<env, secrets, caller, typed, radio, input_text, expert_choice,
                   key, api_key, messages, content, display, resolver_calls,
                   env_reads, secrets_reads, sent_before>>
\* llm.invoke(messages) raises: nothing in ask_llm catches it.
InvokeRaises ==
    /\ pc = "invoke"
    /\ \E e \in RemoteErrors :
          /\ remote_error' = e
          /\ outcome' = Raise(e, e)
    /\ sent_before' = UserTextOf(messages)
    /\ outstanding' = outstanding - 1
    /\ pc' = "ask_done"
    /\ UNCHANGED <<env, secrets, caller, typed, radio, input_text, expert_choice,
                   key, api_key, messages, content, display, resolver_calls,
                   env_reads, secrets_reads, invoke_calls>>

----------------------------------------------------------------------------
(* back in the caller *)

\* main: st.success(...); st.write(response)
MainShowSuccess ==
    /\ pc = "ask_done"
    /\ caller = "main"
    /\ outcome.kind = "return"
    /\ display' = display \o <<[widget |-> "success", text |-> <<>>],
                               [widget |-> "write", text |-> outcome.val]>>
    /\ pc' = "idle"
    /\ UNCHANGED <<env, secrets, caller, typed, radio, input_text, expert_choice,
                   key, api_key, messages, content, remote_error, outcome,
                   resolver_calls, env_reads, secrets_reads, invoke_calls,
                   outstanding, sent_before>>

\* main: except Exception as e: st.error(f"...: {e}")
MainShowError ==
    /\ pc = "ask_done"
    /\ caller = "main"
    /\ outcome.kind = "raise"
    /\ display' = Append(display, [widget |-> "error",
                                   text |-> <<ErrorPrefix, outcome.msg>>])
    /\ pc' = "idle"
    /\ UNCHANGED <<env, secrets, caller, typed, radio, input_text, expert_choice,
                   key, api_key, messages, content, remote_error, outcome,
                   resolver_calls, env_reads, secrets_reads, invoke_calls,
                   outstanding, sent_before>>

\* ask_llm hands its result or its error to a caller other than main.
DirectReturn ==
    /\ pc = "ask_done"
    /\ caller = "direct"
    /\ pc' = "idle"
    /\ UNCHANGED <<env, secrets, caller, typed, radio, input_text, expert_choice,
                   key, api_key, messages, content, remote_error, outcome,
                   display, resolver_calls, env_reads, secrets_reads,
                   invoke_calls, outstanding, sent_before>>

Next ==
    \/ Render
    \/ Submit
    \/ MainRejectEmpty
    \/ MainCallAskLlm
    \/ DirectCall
    \/ AskCheckRole
    \/ GetKeyEnv
    \/ GetKeySecrets
    \/ AskCheckKey
    \/ InvokeReturns
    \/ InvokeRaises
    \/ MainShowSuccess
    \/ MainShowError
    \/ DirectReturn

Spec == Init /\ [][Next]_vars

----------------------------------------------------------------------------
(* Vocabulary of the properties *)

\* ask_llm has been called in the current run.
Called == expert_choice # None

\* ask_llm has ended (its caller may already have resumed).
Ended == Called /\ pc \in {"ask_done", "idle"}

\* A source holds a usable (non-empty) key.
HoldsKey(v) == v \notin {None, Raises, ""}

\* get_openai_api_key has been called and is no longer running.
ResolverReturned == resolver_calls > 0 /\ pc # "get_key_secrets"

\* v is c without a whitespace prefix and a whitespace suffix, and v itself
\* neither starts nor ends with whitespace.
IsTrimOf(v, c) ==
    /\ \E i \in 0..Len(c) :
          /\ i + Len(v) <= Len(c)
          /\ v = SubSeq(c, i + 1, i + Len(v))
          /\ \A k \in 1..Len(c) :
                (k <= i \/ k > i + Len(v)) => c[k] \in Whitespace
    /\ v # <<>> => (v[1] \notin Whitespace /\ v[Len(v)] \notin Whitespace)

AllWhitespace(s) == \A k \in 1..Len(s) : s[k] \in Whitespace

InstructionOf(c) ==
    IF c = "A" THEN "travel-planner-instruction" ELSE "career-coach-instruction"

ConversationOf(c, text) ==
    <<[type |-> "system", content |-> <<InstructionOf(c)>>],
      [type |-> "human", content |-> text]>>

Widgets == {display[i].widget : i \in 1..Len(display)}

----------------------------------------------------------------------------
(* Properties *)

\* C1: a call of ask_llm whose role code is neither "A" nor "B" fails with
\* ValueError, and up to and including that moment the credential resolver
\* has not been called and no completion call has been made.
C1_InvalidRoleFailsFirst ==
    (Called /\ expert_choice \notin {"A", "B"}) =>
        /\ pc \in {"ask_llm", "ask_done", "idle"}
        /\ resolver_calls = 0
        /\ env_reads = 0
        /\ secrets_reads = 0
        /\ invoke_calls = 0
        /\ outstanding = 0
        /\ Ended => outcome = Raise("ValueError", ValueErrorMsg)

C1_Witness ==
    /\ pc = "ask_done"
    /\ expert_choice = "C"
    /\ env = "sk-env"
    /\ outcome.exc = "ValueError"
    /\ resolver_calls = 0

\* C2: a call of ask_llm with a valid role code, while the environment
\* variable is unset and the secret store has no entry, fails with
\* RuntimeError and never makes a completion call.
C2_MissingKeyFailsBeforeNetwork ==
    (Called /\ expert_choice \in {"A", "B"} /\ env = None /\ secrets = None) =>
        /\ invoke_calls = 0
        /\ outstanding = 0
        /\ pc # "invoke"
        /\ Ended => outcome = Raise("RuntimeError", RuntimeErrorMsg)

C2_Witness ==
    /\ pc = "ask_done"
    /\ expert_choice = "B"
    /\ env = None
    /\ secrets = None
    /\ outcome.exc = "RuntimeError"
    /\ resolver_calls = 1

\* C3: a call of ask_llm with a valid role code and a credential available
\* issues exactly one completion request, whose message list is the system
\* message with the instruction of that role followed by the user message
\* with the input_text argument unmodified.
C3_OneRequestTwoMessages ==
    (Called /\ expert_choice \in {"A", "B"} /\ (HoldsKey(env) \/ HoldsKey(secrets))) =>
        /\ pc \in {"invoke", "ask_done", "idle"} =>
              /\ invoke_calls = 1
              /\ Len(messages) = 2
              /\ messages[1] = [type |-> "system",
                                content |-> <<InstructionOf(expert_choice)>>]
              /\ messages[2] = [type |-> "human", content |-> input_text]
        /\ pc \notin {"invoke", "ask_done", "idle"} => invoke_calls = 0

C3_Witness ==
    /\ pc = "ask_done"
    /\ caller = "direct"
    /\ expert_choice = "B"
    /\ input_text = <<" ", "x", " ">>
    /\ invoke_calls = 1
    /\ messages = <<[type |-> "system", content |-> <<"career-coach-instruction">>],
                    [type |-> "human", content |-> <<" ", "x", " ">>]>>

\* C4: when the completion call returns a response, ask_llm returns the
\* response text without its leading and trailing whitespace and with its
\* interior unchanged; the returned text never starts or ends with whitespace.
C4_ReturnsTrimmedContent ==
    (content # NoText) =>
        /\ outcome.kind = "return"
        /\ IsTrimOf(outcome.val, content)

C4_Witness ==
    /\ pc = "ask_done"
    /\ content = <<" ", "x", "\n">>
    /\ outcome = Return(<<"x">>)

\* C5: a form submission whose text is empty or only whitespace shows the
\* warning and ends the run: ask_llm is not called, no credential is looked
\* up, no completion call is made, and neither success nor error is shown.
C5_BlankSubmissionRejected ==
    (caller = "main" /\ typed # NoText /\ AllWhitespace(typed)) =>
        /\ pc \in {"submitted", "idle"}
        /\ ~Called
        /\ input_text = NoText
        /\ resolver_calls = 0
        /\ env_reads = 0
        /\ secrets_reads = 0
        /\ invoke_calls = 0
        /\ outstanding = 0
        /\ Widgets \subseteq {"warning"}
        /\ pc = "idle" => display = <<[widget |-> "warning", text |-> <<>>]>>

C5_Witness ==
    /\ pc = "idle"
    /\ caller = "main"
    /\ typed = <<" ", " ">>
    /\ display = <<[widget |-> "warning", text |-> <<>>]>>

\* C6 as stated: the environment variable is read first, the secret store
\* is consulted only if the variable is unset, and whenever the variable is
\* set the secret store is never read and the environment value is returned.
C6_Original ==
    /\ secrets_reads > 0 => (env_reads > 0 /\ env = None)
    /\ (ResolverReturned /\ env # None) => (secrets_reads = 0 /\ api_key = env)

\* C6 amended: the environment variable is read first, the secret store is
\* consulted only if the variable is unset or empty, and whenever the
\* variable is set to a non-empty value the secret store is never read and
\* the environment value is returned.
C6_EnvFirstSecretsOnlyIfFalsy ==
    /\ secrets_reads > 0 => (env_reads > 0 /\ env \in {None, ""})
    /\ secrets_reads <= 1
    /\ env_reads <= 1
    /\ (ResolverReturned /\ HoldsKey(env)) => (secrets_reads = 0 /\ api_key = env)

C6_Witness ==
    /\ pc = "check_key"
    /\ env = "sk-env"
    /\ secrets = "sk-secrets"
    /\ api_key = "sk-env"
    /\ env_reads = 1
    /\ secrets_reads = 0

\* C7 as stated: the resolver never propagates an error, whatever the
\* environment and the secret store (also when the store is absent or its
\* lookup raises), and it returns None when neither source holds a key.
C7_Original ==
    ResolverReturned =>
        /\ ~(outcome.kind = "raise" /\ invoke_calls = 0 /\ outcome.exc # "RuntimeError")
        /\ (~HoldsKey(env) /\ ~HoldsKey(secrets)) => api_key = None

\* C7 amended: the resolver never propagates an error, whatever the
\* environment and the secret store (also when the store is absent or its
\* lookup raises), and when neither source holds a non-empty key it returns
\* None, or the empty string if that is the secret store's entry.
C7_ResolverNeverRaises ==
    ResolverReturned =>
        /\ ~(outcome.kind = "raise" /\ invoke_calls = 0 /\ outcome.exc # "RuntimeError")
        /\ (~HoldsKey(env) /\ ~HoldsKey(secrets)) =>
              api_key = (IF secrets = "" THEN "" ELSE None)
        /\ pc = "check_key" => outcome.kind = "none"

C7_Witness ==
    /\ pc = "check_key"
    /\ env = None
    /\ secrets = Raises
    /\ secrets_reads = 1
    /\ api_key = None
    /\ outcome.kind = "none"

\* C8: a failure of the completion call is not retried or recovered: ask_llm
\* ends with that same error, no second completion call is made in the run,
\* and main renders the text of any error of ask_llm in the error display,
\* shows no success, and does nothing more in that run.
C8_RemoteFailureShownOnce ==
    /\ invoke_calls <= 1
    /\ remote_error # None =>
          /\ pc \in {"ask_done", "idle"}
          /\ outcome = Raise(remote_error, remote_error)
          /\ content = NoText
          /\ invoke_calls = 1
          /\ outstanding = 0
    /\ (caller = "main" /\ pc = "idle" /\ outcome.kind = "raise") =>
          display = <<[widget |-> "error", text |-> <<ErrorPrefix, outcome.msg>>]>>
    /\ (caller = "main" /\ pc = "ask_done" /\ outcome.kind = "raise") =>
          display = <<>>

C8_Witness ==
    /\ pc = "idle"
    /\ caller = "main"
    /\ remote_error = "AuthenticationError"
    /\ invoke_calls = 1
    /\ display = <<[widget |-> "error",
                    text |-> <<ErrorPrefix, "AuthenticationError">>]>>

C10_FormTextIsStripped ==
    (caller = "main" /\ Called) =>
        /\ IsTrimOf(input_text, typed)
        /\ input_text # <<>>
        /\ input_text[1] \notin Whitespace
        /\ input_text[Len(input_text)] \notin Whitespace
        /\ messages # <<>> => messages[2].content = input_text

C10_Witness ==
    /\ pc = "invoke"
    /\ caller = "main"
    /\ typed = <<" ", "x", " ">>
    /\ input_text = <<"x">>
    /\ messages[2].content = <<"x">>
====
